---------------------------- MODULE Spec2Model ----------------------------
(***************************************************************************)
(* A model of demo/mock-server.py, the mock OpenAI-compatible server of    *)
(* OpenOrca: the response catalog, the turn selection of                   *)
(* _handle_completions, the chunk encoder make_sse_chunk, the word-by-word *)
(* streamer stream_text, the router do_GET / do_POST and the serving loop  *)
(* of main.                                                                *)
(*                                                                         *)
(* Texts are sequences of Unicode code points (a Python str), so that      *)
(* splitting on " " and re-joining is computed, not assumed.  A JSON       *)
(* object is a function from its keys to its values (a Python dict), so    *)
(* that an omitted key differs from a key holding the empty string.        *)
(* The "created" timestamp of a chunk (int(time.time())) is left out of    *)
(* the payload: it is a reading of the wall clock and no other field       *)
(* depends on it.                                                          *)
(***************************************************************************)
EXTENDS Integers, Sequences, FiniteSets, TLC

\* ---------------------------------------------------------------- bounds
\* longest messages list of a request body
MaxMsgs == 3
\* most connections waiting, not yet accepted, in the listen queue
MaxBacklog == 1
\* longest text handed to stream_text directly (specification SpecText)
MaxLen == 4
\* longest message history of a conversation (specification SpecSelect)
MaxHist == 4

\* ------------------------------------------------------------- constants
\* the separator " " of text.split(" ")
SP == 32
MODEL_ID == "demo-model-7b"
\* CHUNK_DELAY = 0.03 seconds, in milliseconds
CHUNK_DELAY == 30
\* Python's None, where a str is expected
None == "<None>"

\* --------------------------------------------------------------- catalog
\* The three canned responses, as code points (76 = "L", 32 = " ", 10 = "\n",
\* 8212 = the em dash).
TOOL_CALL_READ_FILE ==
  <<
    76, 101, 116, 32, 109, 101, 32, 115, 116, 97, 114, 116, 32, 98, 121, 32, 114, 101, 97,
    100, 105, 110, 103, 32, 116, 104, 101, 32, 82, 69, 65, 68, 77, 69, 32, 116, 111, 32,
    117, 110, 100, 101, 114, 115, 116, 97, 110, 100, 32, 116, 104, 105, 115, 32, 112, 114,
    111, 106, 101, 99, 116, 46, 10, 10, 60, 116, 111, 111, 108, 95, 99, 97, 108, 108, 62,
    123, 34, 110, 97, 109, 101, 34, 58, 34, 114, 101, 97, 100, 95, 102, 105, 108, 101, 34,
    44, 34, 97, 114, 103, 117, 109, 101, 110, 116, 115, 34, 58, 123, 34, 112, 97, 116, 104,
    34, 58, 34, 82, 69, 65, 68, 77, 69, 46, 109, 100, 34, 125, 125, 60, 47, 116, 111, 111,
    108, 95, 99, 97, 108, 108, 62
  >>

TOOL_CALL_LIST_DIR ==
  <<
    71, 111, 111, 100, 44, 32, 73, 32, 99, 97, 110, 32, 115, 101, 101, 32, 116, 104, 101,
    32, 82, 69, 65, 68, 77, 69, 46, 32, 76, 101, 116, 32, 109, 101, 32, 97, 108, 115, 111,
    32, 99, 104, 101, 99, 107, 32, 116, 104, 101, 32, 112, 114, 111, 106, 101, 99, 116, 32,
    115, 116, 114, 117, 99, 116, 117, 114, 101, 46, 10, 10, 60, 116, 111, 111, 108, 95, 99,
    97, 108, 108, 62, 123, 34, 110, 97, 109, 101, 34, 58, 34, 108, 105, 115, 116, 95, 100,
    105, 114, 101, 99, 116, 111, 114, 121, 34, 44, 34, 97, 114, 103, 117, 109, 101, 110,
    116, 115, 34, 58, 123, 34, 112, 97, 116, 104, 34, 58, 34, 46, 34, 125, 125, 60, 47, 116,
    111, 111, 108, 95, 99, 97, 108, 108, 62
  >>

FINAL_SUMMARY ==
  <<
    72, 101, 114, 101, 39, 115, 32, 97, 32, 115, 117, 109, 109, 97, 114, 121, 32, 111, 102,
    32, 116, 104, 101, 32, 42, 42, 79, 112, 101, 110, 79, 114, 99, 97, 42, 42, 32, 112, 114,
    111, 106, 101, 99, 116, 58, 10, 10, 42, 42, 79, 112, 101, 110, 79, 114, 99, 97, 42, 42,
    32, 105, 115, 32, 97, 110, 32, 97, 117, 116, 111, 110, 111, 109, 111, 117, 115, 32, 65,
    73, 32, 99, 111, 100, 105, 110, 103, 32, 97, 103, 101, 110, 116, 32, 116, 104, 97, 116,
    32, 114, 117, 110, 115, 32, 105, 110, 32, 121, 111, 117, 114, 32, 116, 101, 114, 109,
    105, 110, 97, 108, 46, 32, 73, 116, 32, 99, 111, 110, 110, 101, 99, 116, 115, 32, 116,
    111, 32, 108, 111, 99, 97, 108, 32, 76, 76, 77, 32, 115, 101, 114, 118, 101, 114, 115,
    32, 108, 105, 107, 101, 32, 76, 77, 32, 83, 116, 117, 100, 105, 111, 32, 111, 114, 32,
    79, 108, 108, 97, 109, 97, 32, 118, 105, 97, 32, 97, 110, 32, 79, 112, 101, 110, 65, 73,
    45, 99, 111, 109, 112, 97, 116, 105, 98, 108, 101, 32, 65, 80, 73, 32, 97, 110, 100, 32,
    117, 115, 101, 115, 32, 42, 42, 51, 49, 32, 98, 117, 105, 108, 116, 45, 105, 110, 32,
    116, 111, 111, 108, 115, 42, 42, 32, 116, 111, 32, 114, 101, 97, 100, 44, 32, 119, 114,
    105, 116, 101, 44, 32, 97, 110, 100, 32, 101, 120, 101, 99, 117, 116, 101, 32, 99, 111,
    100, 101, 32, 97, 117, 116, 111, 110, 111, 109, 111, 117, 115, 108, 121, 46, 10, 10, 42,
    42, 75, 101, 121, 32, 104, 105, 103, 104, 108, 105, 103, 104, 116, 115, 58, 42, 42, 10,
    10, 45, 32, 42, 42, 65, 117, 116, 111, 110, 111, 109, 111, 117, 115, 32, 97, 103, 101,
    110, 116, 32, 108, 111, 111, 112, 42, 42, 32, 8212, 32, 112, 108, 97, 110, 115, 44, 32,
    97, 99, 116, 115, 44, 32, 111, 98, 115, 101, 114, 118, 101, 115, 44, 32, 97, 110, 100,
    32, 105, 116, 101, 114, 97, 116, 101, 115, 32, 117, 112, 32, 116, 111, 32, 50, 53, 32,
    116, 117, 114, 110, 115, 32, 112, 101, 114, 32, 114, 101, 113, 117, 101, 115, 116, 10,
    45, 32, 42, 42, 51, 49, 32, 116, 111, 111, 108, 115, 42, 42, 32, 8212, 32, 102, 105,
    108, 101, 32, 73, 47, 79, 44, 32, 115, 104, 101, 108, 108, 32, 101, 120, 101, 99, 117,
    116, 105, 111, 110, 44, 32, 103, 105, 116, 32, 111, 112, 101, 114, 97, 116, 105, 111,
    110, 115, 44, 32, 119, 101, 98, 32, 115, 101, 97, 114, 99, 104, 44, 32, 71, 105, 116,
    72, 117, 98, 32, 105, 110, 116, 101, 103, 114, 97, 116, 105, 111, 110, 44, 32, 97, 110,
    100, 32, 115, 117, 98, 45, 97, 103, 101, 110, 116, 32, 115, 112, 97, 119, 110, 105, 110,
    103, 10, 45, 32, 42, 42, 87, 111, 114, 107, 115, 32, 119, 105, 116, 104, 32, 97, 110,
    121, 32, 108, 111, 99, 97, 108, 32, 109, 111, 100, 101, 108, 42, 42, 32, 8212, 32, 77,
    105, 115, 116, 114, 97, 108, 44, 32, 76, 108, 97, 109, 97, 44, 32, 68, 101, 101, 112,
    83, 101, 101, 107, 44, 32, 81, 119, 101, 110, 44, 32, 97, 110, 100, 32, 109, 111, 114,
    101, 10, 45, 32, 42, 42, 83, 109, 97, 114, 116, 32, 116, 111, 111, 108, 32, 99, 97, 108,
    108, 105, 110, 103, 42, 42, 32, 8212, 32, 97, 117, 116, 111, 45, 100, 101, 116, 101, 99,
    116, 115, 32, 110, 97, 116, 105, 118, 101, 32, 102, 117, 110, 99, 116, 105, 111, 110,
    32, 99, 97, 108, 108, 105, 110, 103, 32, 115, 117, 112, 112, 111, 114, 116, 44, 32, 102,
    97, 108, 108, 115, 32, 98, 97, 99, 107, 32, 116, 111, 32, 116, 101, 120, 116, 45, 98,
    97, 115, 101, 100, 32, 96, 60, 116, 111, 111, 108, 95, 99, 97, 108, 108, 62, 96, 32,
    116, 97, 103, 115, 10, 45, 32, 42, 42, 82, 105, 99, 104, 32, 67, 76, 73, 42, 42, 32,
    8212, 32, 115, 116, 114, 101, 97, 109, 105, 110, 103, 32, 111, 117, 116, 112, 117, 116,
    44, 32, 116, 104, 105, 110, 107, 105, 110, 103, 32, 105, 110, 100, 105, 99, 97, 116,
    111, 114, 44, 32, 115, 108, 97, 115, 104, 32, 99, 111, 109, 109, 97, 110, 100, 115, 44,
    32, 115, 101, 115, 115, 105, 111, 110, 32, 109, 97, 110, 97, 103, 101, 109, 101, 110,
    116, 44, 32, 99, 111, 110, 116, 101, 120, 116, 32, 99, 111, 109, 112, 97, 99, 116, 105,
    111, 110, 10, 45, 32, 42, 42, 80, 114, 105, 118, 97, 99, 121, 45, 102, 105, 114, 115,
    116, 42, 42, 32, 8212, 32, 101, 118, 101, 114, 121, 116, 104, 105, 110, 103, 32, 114,
    117, 110, 115, 32, 108, 111, 99, 97, 108, 108, 121, 44, 32, 110, 111, 32, 100, 97, 116,
    97, 32, 108, 101, 97, 118, 101, 115, 32, 121, 111, 117, 114, 32, 109, 97, 99, 104, 105,
    110, 101, 10, 10, 84, 104, 101, 32, 112, 114, 111, 106, 101, 99, 116, 32, 105, 115, 32,
    115, 116, 114, 117, 99, 116, 117, 114, 101, 100, 32, 97, 115, 32, 97, 32, 46, 78, 69,
    84, 32, 57, 32, 115, 111, 108, 117, 116, 105, 111, 110, 32, 119, 105, 116, 104, 32, 116,
    104, 114, 101, 101, 32, 109, 97, 105, 110, 32, 97, 115, 115, 101, 109, 98, 108, 105,
    101, 115, 58, 32, 96, 79, 112, 101, 110, 79, 114, 99, 97, 46, 67, 108, 105, 96, 32, 40,
    99, 111, 110, 115, 111, 108, 101, 32, 85, 73, 41, 44, 32, 96, 79, 112, 101, 110, 79,
    114, 99, 97, 46, 67, 111, 114, 101, 96, 32, 40, 100, 111, 109, 97, 105, 110, 32, 108,
    111, 103, 105, 99, 41, 44, 32, 97, 110, 100, 32, 96, 79, 112, 101, 110, 79, 114, 99, 97,
    46, 84, 111, 111, 108, 115, 96, 32, 40, 116, 111, 111, 108, 32, 105, 109, 112, 108, 101,
    109, 101, 110, 116, 97, 116, 105, 111, 110, 115, 41, 46, 32, 73, 116, 39, 115, 32, 77,
    73, 84, 32, 108, 105, 99, 101, 110, 115, 101, 100, 32, 97, 110, 100, 32, 100, 101, 115,
    105, 103, 110, 101, 100, 32, 97, 115, 32, 97, 32, 108, 111, 99, 97, 108, 44, 32, 111,
    112, 101, 110, 45, 115, 111, 117, 114, 99, 101, 32, 97, 108, 116, 101, 114, 110, 97,
    116, 105, 118, 101, 32, 116, 111, 32, 99, 108, 111, 117, 100, 45, 98, 97, 115, 101, 100,
    32, 65, 73, 32, 99, 111, 100, 105, 110, 103, 32, 97, 115, 115, 105, 115, 116, 97, 110,
    116, 115, 46
  >>

OPEN_DELIM ==
  <<
    60, 116, 111, 111, 108, 95, 99, 97, 108, 108, 62
  >>

CLOSE_DELIM ==
  <<
    60, 47, 116, 111, 111, 108, 95, 99, 97, 108, 108, 62
  >>

\* ------------------------------------------------------------ pure parts
\* text.split(" "): the text cut at every single space, so that k spaces give
\* k + 1 words and two spaces in a row give an empty word between them.
\* Computed by halving the text (the recursion is then only logarithmically
\* deep): the last word of the left half and the first word of the right
\* half are the two parts of one word.
RECURSIVE split(_)
split(t) ==
  IF Len(t) = 0 THEN <<t>>
  ELSE IF Len(t) = 1 THEN (IF t[1] = SP THEN <<<<>>, <<>>>> ELSE <<t>>)
  ELSE LET m == Len(t) \div 2
           l == split(SubSeq(t, 1, m))
           r == split(SubSeq(t, m + 1, Len(t)))
       IN  SubSeq(l, 1, Len(l) - 1) \o <<l[Len(l)] \o r[1]>> \o SubSeq(r, 2, Len(r))

\* mutant of make_sse_chunk: the delta always holds "content"
make_sse_chunk_always_content(content, finish_reason) ==
  LET delta == [content |-> content]
      truthy == finish_reason # None /\ finish_reason # ""
      choice == [k \in {"index", "delta"}
                       \cup (IF truthy THEN {"finish_reason"} ELSE {}) |->
                   CASE k = "index" -> 0
                     [] k = "delta" -> delta
                     [] OTHER -> finish_reason]
  IN  [kind |-> "sse",
       payload |-> [id |-> "chatcmpl-demo",
                    object |-> "chat.completion.chunk",
                    model |-> MODEL_ID,
                    choices |-> <<choice>>]]

\* make_sse_chunk: delta holds "content" only for a non-empty content, the
\* choice holds "finish_reason" only for a truthy finish_reason
make_sse_chunk(content, finish_reason) ==
  LET delta == [k \in (IF content # <<>> THEN {"content"} ELSE {}) |-> content]
      truthy == finish_reason # None /\ finish_reason # ""
      choice == [k \in {"index", "delta"}
                       \cup (IF truthy THEN {"finish_reason"} ELSE {}) |->
                   CASE k = "index" -> 0
                     [] k = "delta" -> delta
                     [] OTHER -> finish_reason]
  IN  [kind |-> "sse",
       payload |-> [id |-> "chatcmpl-demo",
                    object |-> "chat.completion.chunk",
                    model |-> MODEL_ID,
                    choices |-> <<choice>>]]

\* the line b"data: [DONE]\n\n"
DONE == [kind |-> "done"]

\* dict.get(key, default) on a JSON object
get(obj, key, default) ==
  IF key \in DOMAIN obj.fields THEN obj.fields[key] ELSE default

\* mutant of tool_msg_count: the role is compared without regard to case
RECURSIVE tool_msg_count_anycase(_)
tool_msg_count_anycase(messages) ==
  IF messages = <<>> THEN 0
  ELSE (IF get(Head(messages), "role", None) \in {"tool", "Tool"} THEN 1 ELSE 0)
       + tool_msg_count_anycase(Tail(messages))

\* sum(1 for m in messages if m.get("role") == "tool")
RECURSIVE tool_msg_count(_)
tool_msg_count(messages) ==
  IF messages = <<>> THEN 0
  ELSE (IF get(Head(messages), "role", None) = "tool" THEN 1 ELSE 0)
       + tool_msg_count(Tail(messages))

\* mutant of response_text: the second threshold is off by one
response_text_late_summary(n) ==
  IF n = 0 THEN TOOL_CALL_READ_FILE
  ELSE IF n <= 2 THEN TOOL_CALL_LIST_DIR
  ELSE FINAL_SUMMARY

\* mutant of response_text: the catalog is walked round and round
response_text_wraps(n) ==
  IF n % 3 = 0 THEN TOOL_CALL_READ_FILE
  ELSE IF n % 3 = 1 THEN TOOL_CALL_LIST_DIR
  ELSE FINAL_SUMMARY

\* the if / elif / else of _handle_completions
response_text(n) ==
  IF n = 0 THEN TOOL_CALL_READ_FILE
  ELSE IF n = 1 THEN TOOL_CALL_LIST_DIR
  ELSE FINAL_SUMMARY

\* ----------------------------------------------------------- request inputs
JObject(f) == [type |-> "object", fields |-> f]
EmptyObject == JObject([k \in {} |-> None])
JString == [type |-> "string"]
JNull == [type |-> "null"]
JArray(s) == [type |-> "array", items |-> s]

\* the messages a body may list: the role "tool", another role (the nearest
\* one, differing from "tool" only in case), no role at all, and an entry
\* that is not an object
MsgValues ==
  { JObject([role |-> "tool", content |-> "out"]),
    JObject([role |-> "Tool", content |-> "out"]),
    JObject([content |-> "hi"]),
    JString }

MsgLists == UNION {[1..n -> MsgValues] : n \in 0..MaxMsgs}

\* what rfile.read(length) returns: nothing (no body, or no Content-Length),
\* bytes that are not JSON, or the text of a JSON value
Bodies ==
  {[raw |-> "empty", value |-> JNull], [raw |-> "malformed", value |-> JNull]}
  \cup {[raw |-> "json", value |-> v] :
          v \in {EmptyObject, JArray(<<>>), JObject([messages |-> JNull])}
                \cup {JObject([messages |-> JArray(ms)]) : ms \in MsgLists}}

Methods == {"GET", "POST", "PUT", "DELETE", "HEAD"}
Paths == {"/v1/models", "/v1/chat/completions", "/", "/v1/models/"}

\* a request; the body is read on the completion route only
Requests ==
  {[method |-> m, path |-> p, body |-> [raw |-> "empty", value |-> JNull]] :
      m \in Methods, p \in Paths}
  \cup {[method |-> "POST", path |-> "/v1/chat/completions", body |-> b] :
          b \in Bodies}

NoRequest == [method |-> "", path |-> "", body |-> [raw |-> "empty", value |-> JNull]]

\* the texts handed to stream_text directly: every text of at most MaxLen
\* characters over " ", "a" and "b"
Texts == UNION {[1..n -> {SP, 97, 98}] : n \in 0..MaxLen}

\* ------------------------------------------------------------------ state
VARIABLES
  backlog,   \* connections waiting in the listen queue of the server socket
  pc,        \* where the one serving thread is
  req,       \* the request of the exchange being handled
  peer,      \* "open" or "closed": the caller's end of the connection
  log,       \* what the handler did on wfile, in order
  exc,       \* the exception that ended the handler, or None
  text,      \* stream_text's text
  words,     \* stream_text's words
  i,         \* stream_text's loop index: the words already handled
  prev_failed \* history: the exchange before this one ended with an
              \* exception or an error status

vars == <<backlog, pc, req, peer, log, exc, text, words, i, prev_failed>>

\* entries of log
Write(data) == [op |-> "write", ok |-> TRUE, data |-> data]
Flush == [op |-> "flush"]
Sleep == [op |-> "sleep", ms |-> CHUNK_DELAY]
Failed(entry) == [op |-> "write", ok |-> FALSE, data |-> entry.data]

\* The handler runs the operations ops on wfile and then goes to next.  A
\* write to a connection the caller has closed either still succeeds (the
\* bytes are buffered) or raises BrokenPipeError, which nothing in the
\* handler catches: the operations after it are not run.
Perform(ops, next) ==
  \/ /\ log' = log \o ops
     /\ pc' = next
     /\ exc' = exc
  \/ /\ peer = "closed"
     /\ \E k \in 1..Len(ops) :
          /\ ops[k].op = "write"
          /\ log' = log \o SubSeq(ops, 1, k - 1) \o <<Failed(ops[k])>>
     /\ pc' = "raised"
     /\ exc' = "BrokenPipeError"

Head200(headers) == [kind |-> "head", status |-> 200, headers |-> headers]

\* BaseHTTPRequestHandler.send_error(code): the status line and headers, then
\* the library's HTML error page as the body, except for HEAD
send_error(code) ==
  Perform(<<Write([kind |-> "head", status |-> code,
                   headers |-> <<<<"Content-Type", "text/html;charset=utf-8">>,
                                 <<"Connection", "close">>>>])>>
          \o (IF req.method = "HEAD" THEN <<>>
              ELSE <<Write([kind |-> "body", html_error |-> code])>>),
          "returned")

Init ==
  /\ backlog = 0
  /\ pc = "serve"
  /\ req = NoRequest
  /\ peer = "open"
  /\ log = <<>>
  /\ exc = None
  /\ text = <<>>
  /\ words = <<>>
  /\ i = 0
  /\ prev_failed = FALSE

\* a caller connects to the listening socket
Connect ==
  /\ pc # "stopped"
  /\ backlog < MaxBacklog
  /\ backlog' = backlog + 1
  /\ UNCHANGED <<pc, req, peer, log, exc, text, words, i, prev_failed>>

\* mutant of handle_request: a connection is accepted while an exchange runs
handle_request_any_time ==
  /\ pc # "stopped"
  /\ backlog > 0
  /\ backlog' = backlog - 1
  /\ \E r \in Requests : req' = r
  /\ pc' = "dispatch"
  /\ peer' = "open"
  /\ log' = <<>>
  /\ exc' = None
  /\ UNCHANGED <<text, words, i, prev_failed>>

\* serve_forever of HTTPServer, which has one thread: it accepts the next
\* connection only between two exchanges, and reads the request line and the
\* headers
handle_request ==
  /\ pc = "serve"
  /\ backlog > 0
  /\ backlog' = backlog - 1
  /\ \E r \in Requests : req' = r
  /\ pc' = "dispatch"
  /\ peer' = "open"
  /\ log' = <<>>
  /\ exc' = None
  /\ UNCHANGED <<text, words, i, prev_failed>>

\* mutant of handle_models: the entry carries a model id of its own
handle_models_other_id ==
  Perform(<<Write(Head200(<<<<"Content-Type", "application/json">>>>)),
            Write([kind |-> "body",
                   json |-> [object |-> "list",
                             data |-> <<[id |-> "demo-model", object |-> "model",
                                         owned_by |-> "demo"]>>]])>>,
          "returned")

\* _handle_models
handle_models ==
  Perform(<<Write(Head200(<<<<"Content-Type", "application/json">>>>)),
            Write([kind |-> "body",
                   json |-> [object |-> "list",
                             data |-> <<[id |-> MODEL_ID, object |-> "model",
                                         owned_by |-> "demo"]>>]])>>,
          "returned")

\* mutant of do_GET: a trailing slash is accepted
do_GET_trailing_slash ==
  /\ pc = "dispatch"
  /\ req.method = "GET"
  /\ IF req.path \in {"/v1/models", "/v1/models/"}
       THEN handle_models ELSE send_error(404)
  /\ UNCHANGED <<backlog, req, peer, text, words, i, prev_failed>>

do_GET ==
  /\ pc = "dispatch"
  /\ req.method = "GET"
  /\ IF req.path = "/v1/models" THEN handle_models ELSE send_error(404)
  /\ UNCHANGED <<backlog, req, peer, text, words, i, prev_failed>>

do_POST ==
  /\ pc = "dispatch"
  /\ req.method = "POST"
  /\ IF req.path = "/v1/chat/completions"
       THEN pc' = "handle_completions" /\ UNCHANGED <<log, exc, prev_failed>>
       ELSE send_error(404)
  /\ UNCHANGED <<backlog, req, peer, text, words, i, prev_failed>>

\* MockHandler defines do_GET and do_POST only: the base class answers every
\* other method with 501
unsupported_method ==
  /\ pc = "dispatch"
  /\ req.method \notin {"GET", "POST"}
  /\ send_error(501)
  /\ UNCHANGED <<backlog, req, peer, text, words, i, prev_failed>>

\* the exception that reading the body and counting the messages raise, or None
body_error(b) ==
  IF b.raw = "empty" THEN None
  ELSE IF b.raw = "malformed" THEN "JSONDecodeError"
  ELSE IF b.value.type # "object" THEN "AttributeError"
  ELSE LET messages == get(b.value, "messages", JArray(<<>>))
       IN  IF messages.type # "array" THEN "TypeError"
           ELSE IF \E k \in 1..Len(messages.items) :
                     messages.items[k].type # "object"
                  THEN "AttributeError"
           ELSE None

\* body = json.loads(raw) if raw else {}; messages = body.get("messages", [])
body_messages(b) ==
  get(IF b.raw = "empty" THEN EmptyObject ELSE b.value, "messages", JArray(<<>>)).items

\* the three send_header calls of _handle_completions
StreamHeaders ==
  <<<<"Content-Type", "text/event-stream">>,
    <<"Cache-Control", "no-cache">>,
    <<"Connection", "keep-alive">>>>

\* mutant of handle_completions: the tool results are counted across
\* exchanges, a failed exchange leaving one behind
handle_completions_counts_across ==
  /\ pc = "handle_completions"
  /\ IF body_error(req.body) # None
       THEN /\ exc' = body_error(req.body)
            /\ pc' = "raised"
            /\ UNCHANGED text
       ELSE /\ text' = response_text(tool_msg_count(body_messages(req.body))
                                     + (IF prev_failed THEN 1 ELSE 0))
            /\ pc' = "send_headers"
            /\ UNCHANGED exc
  /\ UNCHANGED <<backlog, req, peer, log, words, i, prev_failed>>

\* mutant of handle_completions: the status and the headers are sent before
\* the body is read
handle_completions_headers_first ==
  /\ pc = "handle_completions"
  /\ log' = log \o <<Write(Head200(StreamHeaders))>>
  /\ IF body_error(req.body) # None
       THEN /\ exc' = body_error(req.body)
            /\ pc' = "raised"
            /\ UNCHANGED text
       ELSE /\ text' = response_text(tool_msg_count(body_messages(req.body)))
            /\ pc' = "send_headers"
            /\ UNCHANGED exc
  /\ UNCHANGED <<backlog, req, peer, words, i, prev_failed>>

\* _handle_completions up to the choice of the response text
handle_completions ==
  /\ pc = "handle_completions"
  /\ IF body_error(req.body) # None
       THEN /\ exc' = body_error(req.body)
            /\ pc' = "raised"
            /\ UNCHANGED text
       ELSE /\ text' = response_text(tool_msg_count(body_messages(req.body)))
            /\ pc' = "send_headers"
            /\ UNCHANGED exc
  /\ UNCHANGED <<backlog, req, peer, log, words, i, prev_failed>>

\* send_response(200), the three send_header calls and end_headers, which
\* writes them; then stream_text is called
send_headers ==
  /\ pc = "send_headers"
  /\ Perform(<<Write(Head200(StreamHeaders))>>, "stream_text")
  /\ UNCHANGED <<backlog, req, peer, text, words, i, prev_failed>>

\* mutant of stream_split: runs of spaces are collapsed, as text.split() does
stream_split_collapsing ==
  /\ pc = "stream_text"
  /\ words' = SelectSeq(split(text), LAMBDA w : w # <<>>)
  /\ i' = 0
  /\ pc' = "loop"
  /\ UNCHANGED <<backlog, req, peer, log, exc, text, prev_failed>>

\* stream_text: words = text.split(" ")
stream_split ==
  /\ pc = "stream_text"
  /\ words' = split(text)
  /\ i' = 0
  /\ pc' = "loop"
  /\ UNCHANGED <<backlog, req, peer, log, exc, text, prev_failed>>

\* mutant of stream_word: a failed write is caught and the loop goes on
stream_word_goes_on ==
  /\ pc = "loop"
  /\ i < Len(words)
  /\ LET word == words[i + 1]
         token == IF i = 0 THEN word ELSE <<SP>> \o word
         chunk == Write(make_sse_chunk(token, None))
     IN  \/ /\ log' = log \o <<chunk, Flush, Sleep>>
            /\ pc' = "loop"
         \/ /\ peer = "closed"
            /\ log' = log \o <<Failed(chunk)>>
            /\ pc' = "loop"
  /\ i' = i + 1
  /\ UNCHANGED <<backlog, req, peer, exc, text, words, prev_failed>>

\* mutant of stream_word: a failed write is answered with send_error(500)
stream_word_error_status ==
  /\ pc = "loop"
  /\ i < Len(words)
  /\ LET word == words[i + 1]
         token == IF i = 0 THEN word ELSE <<SP>> \o word
         chunk == Write(make_sse_chunk(token, None))
     IN  \/ /\ log' = log \o <<chunk, Flush, Sleep>>
            /\ pc' = "loop"
            /\ exc' = exc
         \/ /\ peer = "closed"
            /\ log' = log \o <<Failed(chunk),
                                Failed(Write([kind |-> "head", status |-> 500,
                                              headers |-> <<>>]))>>
            /\ pc' = "raised"
            /\ exc' = "BrokenPipeError"
  /\ i' = IF pc' = "loop" THEN i + 1 ELSE i
  /\ UNCHANGED <<backlog, req, peer, text, words, prev_failed>>

\* mutant of stream_word: the space is put behind the word, not before it
stream_word_space_behind ==
  /\ pc = "loop"
  /\ i < Len(words)
  /\ LET word == words[i + 1]
         token == IF i = 0 THEN word ELSE word \o <<SP>>
     IN  Perform(<<Write(make_sse_chunk(token, None)), Flush, Sleep>>, "loop")
  /\ i' = IF pc' = "loop" THEN i + 1 ELSE i
  /\ UNCHANGED <<backlog, req, peer, text, words, prev_failed>>

\* mutant of stream_word: the delay comes before the chunk, not after it
stream_word_sleeps_first ==
  /\ pc = "loop"
  /\ i < Len(words)
  /\ LET word == words[i + 1]
         token == IF i = 0 THEN word ELSE <<SP>> \o word
     IN  Perform(<<Sleep, Write(make_sse_chunk(token, None)), Flush>>, "loop")
  /\ i' = IF pc' = "loop" THEN i + 1 ELSE i
  /\ UNCHANGED <<backlog, req, peer, text, words, prev_failed>>

\* mutant of stream_word: the loop does not move on to the next word
stream_word_again ==
  /\ pc = "loop"
  /\ i < Len(words)
  /\ LET word == words[i + 1]
         token == IF i = 0 THEN word ELSE <<SP>> \o word
     IN  Perform(<<Write(make_sse_chunk(token, None)), Flush, Sleep>>, "loop")
  /\ i' = i
  /\ UNCHANGED <<backlog, req, peer, text, words, prev_failed>>

\* one turn of the loop of stream_text: write the chunk, flush, sleep
stream_word ==
  /\ pc = "loop"
  /\ i < Len(words)
  /\ LET word == words[i + 1]
         token == IF i = 0 THEN word ELSE <<SP>> \o word
     IN  Perform(<<Write(make_sse_chunk(token, None)), Flush, Sleep>>, "loop")
  /\ i' = IF pc' = "loop" THEN i + 1 ELSE i
  /\ UNCHANGED <<backlog, req, peer, text, words, prev_failed>>

\* mutant of stream_final: the sentinel is written before the final chunk
stream_final_done_first ==
  /\ pc = "loop"
  /\ i = Len(words)
  /\ Perform(<<Write(DONE), Write(make_sse_chunk(<<>>, "stop")), Flush>>,
             "returned")
  /\ UNCHANGED <<backlog, req, peer, text, words, i, prev_failed>>

\* after the loop: the final chunk, the sentinel, flush; the handler returns
stream_final ==
  /\ pc = "loop"
  /\ i = Len(words)
  /\ Perform(<<Write(make_sse_chunk(<<>>, "stop")), Write(DONE), Flush>>,
             "returned")
  /\ UNCHANGED <<backlog, req, peer, text, words, i, prev_failed>>

\* the caller closes its end of the connection while the exchange runs
peer_close ==
  /\ pc \in {"dispatch", "handle_completions", "send_headers", "stream_text", "loop"}
  /\ peer = "open"
  /\ peer' = "closed"
  /\ UNCHANGED <<backlog, pc, req, log, exc, text, words, i, prev_failed>>

\* the exchange ended badly: the handler raised, or answered an error status
exchange_failed ==
  \/ pc = "raised"
  \/ /\ log # <<>>
     /\ log[1].data.kind = "head"
     /\ log[1].data.status >= 400

\* mutant of finish_request: an exception of the handler ends serve_forever
finish_request_dies ==
  /\ pc \in {"returned", "raised"}
  /\ prev_failed' = exchange_failed
  /\ pc' = IF pc = "raised" THEN "stopped" ELSE "serve"
  /\ req' = NoRequest
  /\ peer' = "open"
  /\ log' = <<>>
  /\ exc' = IF pc = "raised" THEN exc ELSE None
  /\ text' = <<>>
  /\ words' = <<>>
  /\ i' = 0
  /\ UNCHANGED backlog

\* the handler returned or raised: the server reports an exception on
\* stderr, closes the connection and goes on serving
finish_request ==
  /\ pc \in {"returned", "raised"}
  /\ prev_failed' = exchange_failed
  /\ pc' = "serve"
  /\ req' = NoRequest
  /\ peer' = "open"
  /\ log' = <<>>
  /\ exc' = None
  /\ text' = <<>>
  /\ words' = <<>>
  /\ i' = 0
  /\ UNCHANGED backlog

\* KeyboardInterrupt: main closes the server
shutdown ==
  /\ pc # "stopped"
  /\ pc' = "stopped"
  /\ backlog' = 0
  /\ req' = NoRequest
  /\ peer' = "closed"
  /\ log' = <<>>
  /\ exc' = "KeyboardInterrupt"
  /\ text' = <<>>
  /\ words' = <<>>
  /\ i' = 0
  /\ UNCHANGED prev_failed

Next ==
  \/ Connect
  \/ handle_request
  \/ do_GET
  \/ do_POST
  \/ unsupported_method
  \/ handle_completions
  \/ send_headers
  \/ stream_split
  \/ stream_word
  \/ stream_final
  \/ peer_close
  \/ finish_request
  \/ shutdown

Spec == Init /\ [][Next]_vars

\* stream_text called on its own, with any text
InitText ==
  /\ backlog = 0
  /\ pc = "stream_text"
  /\ req = NoRequest
  /\ peer = "open"
  /\ log = <<>>
  /\ exc = None
  /\ text \in Texts
  /\ words = <<>>
  /\ i = 0
  /\ prev_failed = FALSE

NextText ==
  \/ stream_split
  \/ stream_word
  \/ stream_final
  \/ peer_close

SpecText == InitText /\ [][NextText]_vars

\* ------------------------------------------------------ what a caller sees
\* the data of the writes that succeeded, in order
Written ==
  LET ok == SelectSeq(log, LAMBDA e : e.op = "write" /\ e.ok)
  IN  [k \in 1..Len(ok) |-> ok[k].data]

\* the JSON events among them
Events == SelectSeq(Written, LAMBDA d : d.kind = "sse")

Choice(ev) == ev.payload.choices[1]
HasContent(ev) == "content" \in DOMAIN Choice(ev).delta
HasFinish(ev) == "finish_reason" \in DOMAIN Choice(ev)
\* the content fragment of an event, the empty string when it has none
ContentOf(ev) == IF HasContent(ev) THEN Choice(ev).delta.content ELSE <<>>

\* the concatenation of a sequence of strings, by halves
RECURSIVE Concat(_)
Concat(ss) ==
  IF Len(ss) = 0 THEN <<>>
  ELSE IF Len(ss) = 1 THEN ss[1]
  ELSE LET m == Len(ss) \div 2
       IN  Concat(SubSeq(ss, 1, m)) \o Concat(SubSeq(ss, m + 1, Len(ss)))

\* the text a caller reconstructs from the stream
Streamed == Concat([k \in 1..Len(Events) |-> ContentOf(Events[k])])

\* the places where pat occurs in s
Occurrences(s, pat) ==
  {k \in 1..(Len(s) - Len(pat) + 1) : SubSeq(s, k, k + Len(pat) - 1) = pat}

IsCompletion == req.method = "POST" /\ req.path = "/v1/chat/completions"

\* the messages of the request as the caller sent them (none without a body
\* or without a messages list)
SentMessages ==
  IF req.body.raw = "json" /\ req.body.value.type = "object"
     /\ "messages" \in DOMAIN req.body.value.fields
     /\ req.body.value.fields.messages.type = "array"
  THEN req.body.value.fields.messages.items
  ELSE <<>>

\* the role a message states, None when it states none
RoleOf(m) ==
  IF m.type = "object" /\ "role" \in DOMAIN m.fields THEN m.fields.role ELSE None

\* how many of the messages have the role "tool"
ToolRoles ==
  Cardinality({k \in 1..Len(SentMessages) : RoleOf(SentMessages[k]) = "tool"})

Catalog == <<TOOL_CALL_READ_FILE, TOOL_CALL_LIST_DIR, FINAL_SUMMARY>>

\* ------------------------------------------------------------------ claims

\* C1: when a completion exchange has streamed to its end, the streamed text
\* is the catalog entry chosen by the number n of messages whose role is
\* exactly "tool" alone: catalog[0] for n = 0, catalog[1] for n = 1,
\* catalog[2] for n >= 2, whatever the other messages are.
C1_TextByToolCount ==
  (pc = "returned" /\ IsCompletion) =>
    Streamed = Catalog[(IF ToolRoles >= 2 THEN 2 ELSE ToolRoles) + 1]

\* a stream that ended after one "tool" message in last place, behind a
\* message whose role is "Tool" and one that has no role
C1_Witness ==
  /\ pc = "returned"
  /\ IsCompletion
  /\ Len(SentMessages) = 3
  /\ ToolRoles = 1
  /\ RoleOf(SentMessages[1]) = "Tool"
  /\ RoleOf(SentMessages[2]) = None
  /\ RoleOf(SentMessages[3]) = "tool"
  /\ Streamed = TOOL_CALL_LIST_DIR

\* C2: stream_text loses nothing: for every text, runs of spaces included,
\* the content fragments of the events before the terminal event, joined in
\* the order written, are the text.
C2_SplitJoinLossless ==
  (pc = "returned") =>
    /\ Len(Events) >= 1
    /\ HasFinish(Events[Len(Events)])
    /\ Concat([k \in 1..(Len(Events) - 1) |-> ContentOf(Events[k])]) = text

\* a streamed text with two spaces in a row
C2_Witness ==
  /\ pc = "returned"
  /\ text = <<97, SP, SP, 98>>
  /\ Len(Events) = 4

\* C3: a completion stream that runs to its end ends with a JSON event with
\* an empty delta and finish_reason "stop", then the sentinel; the sentinel
\* is written once, every event before the terminal one was written before
\* it, and once it is written the handler has returned.
C3_TerminalThenDone ==
  IsCompletion =>
    LET w == Written
        n == Len(w)
        dones == {k \in 1..n : w[k] = DONE}
    IN  /\ (pc = "returned" => dones = {n})
        /\ (dones # {} =>
              /\ pc = "returned"
              /\ dones = {n}
              /\ n >= 2
              /\ w[n - 1].kind = "sse"
              /\ DOMAIN Choice(w[n - 1]).delta = {}
              /\ HasFinish(w[n - 1])
              /\ Choice(w[n - 1]).finish_reason = "stop"
              /\ \A k \in 1..(n - 2) : w[k].kind = "sse" => HasContent(w[k]))

\* a summary stream that ran to its end
C3_Witness ==
  /\ pc = "returned"
  /\ IsCompletion
  /\ text = FINAL_SUMMARY
  /\ Written[Len(Written)] = DONE

\* C4: a completion request whose body is absent or is not JSON is treated
\* as one with an empty message list: with the caller still connected, the
\* handler ends without an exception, having written the 200 status with the
\* event-stream headers and streamed catalog[0].
C4_AbsentOrMalformedBodyDefaults ==
  (/\ IsCompletion
   /\ req.body.raw \in {"empty", "malformed"}
   /\ peer = "open"
   /\ pc \in {"returned", "raised"}) =>
    /\ pc = "returned"
    /\ exc = None
    /\ Len(Written) >= 1
    /\ Written[1] = Head200(StreamHeaders)
    /\ Streamed = TOOL_CALL_READ_FILE

Routed ==
  \/ req.method = "GET" /\ req.path = "/v1/models"
  \/ req.method = "POST" /\ req.path = "/v1/chat/completions"

\* C5 as stated: every request that is neither GET /v1/models nor
\* POST /v1/chat/completions, other methods included, is answered with the
\* status 404 and no body.
C5_NotFoundEmptyBody ==
  (pc = "returned" /\ req.method \in Methods /\ ~Routed) =>
    /\ Len(Written) = 1
    /\ Written[1].kind = "head"
    /\ Written[1].status = 404

\* C5 as amended: a GET or POST request that is neither of the two routes is
\* answered with the status 404 and the HTTP library's HTML error page as the
\* body; a request with any other method is answered with 501 on every path,
\* with the error page too, except HEAD, which gets no body.
C5_NotFoundOrUnsupported ==
  (pc = "returned" /\ req.method \in Methods /\ ~Routed) =>
    LET code == IF req.method \in {"GET", "POST"} THEN 404 ELSE 501
    IN  /\ Len(Written) = (IF req.method = "HEAD" THEN 1 ELSE 2)
        /\ Written[1].kind = "head"
        /\ Written[1].status = code
        /\ Len(Written) = 2 => Written[2] = [kind |-> "body", html_error |-> code]

\* a GET on a path that differs from the models route by a trailing slash
C5_Witness ==
  /\ pc = "returned"
  /\ req.method = "GET"
  /\ req.path = "/v1/models/"
  /\ Len(Written) = 2
  /\ Written[1].status = 404

\* a write that raised is in the log
HasFailedWrite == \E k \in 1..Len(log) : log[k].op = "write" /\ ~log[k].ok

\* C6: once a write of an exchange has failed, nothing more is done on the
\* response channel in that exchange: no step adds an entry to a log that
\* holds a failed write (the log is only dropped with the exchange).
C6_NoWriteAfterFailure ==
  [][HasFailedWrite => (log' = log \/ log' = <<>>)]_vars

\* a stream cut by a failed write after its first chunks, with words left
C6_Witness ==
  /\ pc = "raised"
  /\ exc = "BrokenPipeError"
  /\ IsCompletion
  /\ HasFailedWrite
  /\ i >= 2
  /\ i < Len(words)
  /\ Len(Events) = i

Handling == {"dispatch", "handle_completions", "send_headers", "stream_text", "loop"}

\* C7 as stated: while one completion exchange is between two of its chunk
\* writes, the server can accept a connection that is waiting.
C7_AcceptWhileStreaming ==
  (pc = "loop" /\ i >= 1 /\ backlog >= 1) => ENABLED handle_request

\* C7 as amended: the server handles one exchange at a time. A waiting
\* connection is accepted only between two exchanges, so nothing is written
\* for it before the running exchange has ended; within an exchange the
\* request stays the same and the log only grows at its end.
C7_OneExchangeAtATime ==
  [][/\ (backlog' < backlog /\ pc' # "stopped") => pc = "serve"
     /\ (pc \in Handling /\ pc' \notin {"serve", "stopped"}) =>
          /\ req' = req
          /\ Len(log') >= Len(log)
          /\ SubSeq(log', 1, Len(log)) = log]_vars

\* a second connection waits while a stream is between two chunks
C7_Witness ==
  /\ pc = "loop"
  /\ IsCompletion
  /\ i >= 1
  /\ i < Len(words)
  /\ backlog >= 1
  /\ Len(Events) = i

\* the writes the handler attempted, in order
Attempted ==
  LET ws == SelectSeq(log, LAMBDA e : e.op = "write")
  IN  [k \in 1..Len(ws) |-> ws[k].data]

\* C8: in a completion exchange the first thing written is the status 200
\* with the three event-stream headers, and no other status is ever written
\* in the exchange, whether it ends normally or with a failed write.
C8_HeadersFirstStatusOnce ==
  IsCompletion =>
    LET a == Attempted
    IN  /\ Len(a) >= 1 => a[1] = Head200(StreamHeaders)
        /\ \A k \in 2..Len(a) : a[k].kind # "head"
        /\ pc = "returned" => Len(a) >= 1

\* a stream that failed after the headers and some chunks had been written
C8_Witness ==
  /\ pc = "raised"
  /\ exc = "BrokenPipeError"
  /\ IsCompletion
  /\ Len(Written) >= 3
  /\ Written[1] = Head200(StreamHeaders)

\* C9: in a completion stream every event has the same id; an event has no
\* content exactly when it carries finish_reason; a content is never empty;
\* finish_reason is "stop" and is carried by the last event only, after all
\* the words; a stream that ran to its end has that terminal event.
C9_ChunkShape ==
  IsCompletion =>
    LET e == Events
        n == Len(e)
    IN  /\ \A k \in 1..n :
             LET ev == e[k]
                 c == Choice(ev)
                 fin == HasFinish(ev)
                 con == HasContent(ev)
             IN  /\ ev.payload.id = e[1].payload.id
                 /\ fin <=> ~con
                 /\ fin <=> DOMAIN c.delta = {}
                 /\ con => c.delta.content # <<>>
                 /\ fin =>
                      /\ c.finish_reason = "stop"
                      /\ k = n
                      /\ n = Len(words) + 1
        /\ pc = "returned" => (n >= 1 /\ HasFinish(e[n]))

\* the read_file response streamed to its end: eleven words and the terminal
\* event
C9_Witness ==
  /\ pc = "returned"
  /\ IsCompletion
  /\ text = TOOL_CALL_READ_FILE
  /\ Len(Events) = 12
  /\ HasFinish(Events[12])
  /\ HasContent(Events[11])

\* C10 as stated: after two or more tool-role messages the streamed text is
\* catalog[2] and holds neither the opening nor the closing delimiter.
C10_SummaryHasNoDelimiter ==
  (pc = "returned" /\ IsCompletion /\ ToolRoles >= 2) =>
    LET t == Streamed
    IN  /\ t = FINAL_SUMMARY
        /\ Occurrences(t, OPEN_DELIM) = {}
        /\ Occurrences(t, CLOSE_DELIM) = {}

\* C10 as amended: after two or more tool-role messages the streamed text is
\* catalog[2]; it holds no closing delimiter, hence no complete marker, but
\* the opening delimiter occurs in it once, quoted in the prose.
C10_SummaryHasNoClosingDelimiter ==
  (pc = "returned" /\ IsCompletion /\ ToolRoles >= 2) =>
    LET t == Streamed
    IN  /\ t = FINAL_SUMMARY
        /\ Cardinality(Occurrences(t, OPEN_DELIM)) = 1
        /\ Occurrences(t, CLOSE_DELIM) = {}

\* a stream that ended after three tool-role messages
C10_Witness ==
  /\ pc = "returned"
  /\ IsCompletion
  /\ ToolRoles = 3
  /\ Occurrences(Streamed, OPEN_DELIM) # {}


\* a request the program has a route for, with a body it can read
WellFormed == Routed /\ (IsCompletion => body_error(req.body) = None)

\* the exchange was answered in full: the model list, or the whole stream
AnsweredNormally ==
  LET w == Written
  IN  /\ pc = "returned"
      /\ Len(w) >= 2
      /\ w[1].kind = "head"
      /\ w[1].status = 200
      /\ IF IsCompletion
            THEN /\ w[Len(w)] = DONE
                 /\ Streamed = Catalog[(IF ToolRoles >= 2 THEN 2 ELSE ToolRoles) + 1]
            ELSE /\ Len(w) = 2
                 /\ w[2].kind = "body"

\* C11: an exchange that ends with an error (an unknown route, a body that
\* cannot be parsed, a failed write) ends alone: the process stops on a
\* keyboard interrupt only; after a failed exchange the server accepts a
\* waiting connection, and a well-formed request that follows is answered in
\* full unless a write of its own fails.
C11_FailureEndsOnlyTheExchange ==
  /\ pc = "stopped" => exc = "KeyboardInterrupt"
  /\ (prev_failed /\ pc = "serve" /\ backlog > 0) => ENABLED handle_request
  /\ (prev_failed /\ WellFormed /\ pc \in {"returned", "raised"}) =>
        \/ AnsweredNormally
        \/ pc = "raised" /\ exc = "BrokenPipeError" /\ peer = "closed"

\* after a failed exchange, a completion request was streamed to its end
C11_Witness ==
  /\ prev_failed
  /\ IsCompletion
  /\ ToolRoles = 1
  /\ AnsweredNormally

\* the complete response to a message list, computed from the list alone
StreamOf(ms) ==
  LET ws == split(response_text(tool_msg_count(ms)))
  IN  <<Head200(StreamHeaders)>>
      \o [k \in 1..Len(ws) |->
            make_sse_chunk(IF k = 1 THEN ws[k] ELSE <<SP>> \o ws[k], None)]
      \o <<make_sse_chunk(<<>>, "stop"), DONE>>

\* C12: an exchange depends on its own request only. What a completion
\* exchange has written when its handler returns is a function of the message
\* list of its request, whatever happened in the exchanges before it and
\* however many connections wait behind it; and an exchange starts with
\* nothing left over from the one before.
C12_NoCrossRequestState ==
  /\ (pc = "returned" /\ IsCompletion) => Written = StreamOf(SentMessages)
  /\ pc = "dispatch" =>
        log = <<>> /\ exc = None /\ text = <<>> /\ words = <<>> /\ i = 0

\* a completion exchange with two tool results answered in full after a
\* failed exchange, with another connection waiting
C12_Witness ==
  /\ prev_failed
  /\ backlog = 1
  /\ pc = "returned"
  /\ IsCompletion
  /\ ToolRoles = 2
  /\ Written = StreamOf(SentMessages)
  /\ Streamed = FINAL_SUMMARY

IsModels == req.method = "GET" /\ req.path = "/v1/models"

\* C13: GET /v1/models is answered with the status 200 and nothing else: the
\* first write attempted is the 200 head with the JSON content type, and when
\* the handler has returned the response is that head and one JSON document
\* whose data list has exactly one entry, with the id MODEL_ID; the same
\* MODEL_ID is the model field of every chunk of every completion stream.
C13_ModelsListsTheOneModel ==
  /\ IsModels =>
        LET a == Attempted
            w == Written
        IN  /\ a # <<>> =>
                  a[1] = Head200(<<<<"Content-Type", "application/json">>>>)
            /\ \A k \in 2..Len(a) : a[k].kind = "body"
            /\ pc = "returned" =>
                  /\ Len(w) = 2
                  /\ w[2].kind = "body"
                  /\ Len(w[2].json.data) = 1
                  /\ w[2].json.data[1].id = MODEL_ID
  /\ IsCompletion =>
        LET e == Events
        IN  \A k \in 1..Len(e) : e[k].payload.model = MODEL_ID

\* the model list has been sent
C13_Witness ==
  /\ IsModels
  /\ pc = "returned"
  /\ Len(Written) = 2
  /\ Written[2].json.data[1].id = MODEL_ID

\* the entry of the log is a content chunk that was written
IsContentWrite(e) ==
  /\ e.op = "write"
  /\ e.ok
  /\ e.data.kind = "sse"
  /\ HasContent(e.data)

\* what a step has appended to the log
Appended == SubSeq(log', Len(log) + 1, Len(log'))

\* C14: the pacing delay comes after a content chunk and nowhere else. A
\* step of a completion exchange that does something on the response channel
\* either does no delay at all, or writes one content chunk, flushes and
\* then delays, in this order and nothing more, so that every delay directly
\* follows the flush of a chunk just written, none precedes the first chunk,
\* and the delays are as many as the content chunks written; the step that
\* writes the terminal event writes the sentinel and flushes with no delay
\* between or behind them, and the exchange does nothing after it.
C14_DelayFollowsEachContentChunk ==
  [][(IsCompletion /\ pc \in Handling /\ Len(log') > Len(log)) =>
       LET a == Appended
           delays == {k \in 1..Len(a) : a[k].op = "sleep"}
           chunks == {k \in 1..Len(a) : IsContentWrite(a[k])}
       IN  /\ SubSeq(log', 1, Len(log)) = log
           /\ delays # {} =>
                 /\ a = <<a[1], Flush, Sleep>>
                 /\ IsContentWrite(a[1])
           /\ chunks # {} => a = <<a[1], Flush, Sleep>>
           /\ (\E k \in 1..Len(a) : a[k] = Write(DONE)) =>
                 /\ a = <<Write(make_sse_chunk(<<>>, "stop")), Write(DONE), Flush>>
                 /\ pc' = "returned"
           /\ (a[1].op = "write" /\ a[1].data = make_sse_chunk(<<>>, "stop")) =>
                 /\ delays = {}
                 /\ pc' \in {"returned", "raised"}
           /\ pc' = "returned" =>
                 a = <<Write(make_sse_chunk(<<>>, "stop")), Write(DONE), Flush>>
     ]_vars

\* the list_dir response streamed to its end: as many delays as words, the
\* last delay before the terminal event
C14_Witness ==
  /\ pc = "returned"
  /\ IsCompletion
  /\ text = TOOL_CALL_LIST_DIR
  /\ Cardinality({k \in 1..Len(log) : log[k].op = "sleep"}) = Len(words)
  /\ log[Len(log) - 3].op = "sleep"
  /\ log[2].op = "write"

\* ------------------------------------------------ a conversation that grows
\* The caller of a conversation sends its whole history with every request.
\* SpecSelect follows one conversation: each step appends one message to the
\* history and runs the selection of _handle_completions on the new history.
HistoryBody(ms) == [raw |-> "json", value |-> JObject([messages |-> JArray(ms)])]

InitSelect ==
  /\ backlog = 0
  /\ pc = "selected"
  /\ req = [method |-> "POST", path |-> "/v1/chat/completions",
            body |-> HistoryBody(<<>>)]
  /\ peer = "open"
  /\ log = <<>>
  /\ exc = None
  /\ text = response_text(tool_msg_count(<<>>))
  /\ words = <<>>
  /\ i = 0
  /\ prev_failed = FALSE

\* the next request of the conversation: the history with one more message
extend_history ==
  /\ pc = "selected"
  /\ Len(SentMessages) < MaxHist
  /\ \E m \in MsgValues :
       LET b == HistoryBody(Append(SentMessages, m))
       IN  /\ req' = [req EXCEPT !.body = b]
           /\ IF body_error(b) # None
                THEN /\ exc' = body_error(b)
                     /\ pc' = "raised"
                     /\ UNCHANGED text
                ELSE /\ text' = response_text(tool_msg_count(body_messages(b)))
                     /\ UNCHANGED <<pc, exc>>
  /\ UNCHANGED <<backlog, peer, log, words, i, prev_failed>>

NextSelect == extend_history

SpecSelect == InitSelect /\ [][NextSelect]_vars

\* the catalog index of a selected text
IndexOf(t) == CHOOSE k \in 0..2 : Catalog[k + 1] = t

\* C15: the selection never goes back. When a history is extended by one
\* message and both selections succeed, the index selected for the longer
\* history is not lower than before; it is higher only if the message
\* appended has the role "tool"; and from index 2 it stays 2. (Appending
\* several messages is a chain of such steps.)
C15_SelectionNeverRegresses ==
  [][pc' = "selected" =>
       /\ IndexOf(text') >= IndexOf(text)
       /\ IndexOf(text') > IndexOf(text) =>
             RoleOf(SentMessages'[Len(SentMessages')]) = "tool"
       /\ IndexOf(text) = 2 => IndexOf(text') = 2]_vars

\* a history of three tool results extended by a fourth: the summary again
C15_Witness ==
  /\ pc = "selected"
  /\ Len(SentMessages) = 4
  /\ ToolRoles = 4
  /\ text = FINAL_SUMMARY

\* ------------------------------------------- the server and any text at all
\* The server, and stream_text called on its own with any text: the streams
\* of the three catalog texts together with those of every small text.
SpecStream == (Init \/ InitText) /\ [][Next]_vars

\* stream_text has run to its end, for a completion request or on its own
StreamEnded == pc = "returned" /\ (IsCompletion \/ req = NoRequest)

Spaces(t) == {j \in 1..Len(t) : t[j] = SP}

\* C16: stream_text gives one event to each token between two single
\* spaces. A stream that ran to its end over a text with k spaces has k + 1
\* events before the terminal one; the first carries token 0 as it is (no
\* content at all when that token is empty), each later one carries one space
\* and then its token, which holds no space (so an empty token gives " ");
\* joined, they are the text. For the request {"messages":[]} the first two
\* fragments are "Let" and " me", and the stream ends with the event with
\* finish_reason "stop" and then the sentinel.
C16_OneEventPerToken ==
  StreamEnded =>
    LET e == Events
        w == Written
        k == Cardinality(Spaces(text))
        frag == [j \in 1..(Len(e) - 1) |-> ContentOf(e[j])]
    IN  /\ Len(e) = k + 2
        /\ \A j \in 1..(k + 1) : ~HasFinish(e[j])
        /\ Spaces(frag[1]) = {}
        /\ \A j \in 2..(k + 1) : Spaces(frag[j]) = {1}
        /\ Concat(frag) = text
        /\ HasFinish(e[k + 2])
        /\ Choice(e[k + 2]).finish_reason = "stop"
        /\ w[Len(w) - 1] = e[k + 2]
        /\ w[Len(w)] = DONE
        /\ (IsCompletion /\ req.body = HistoryBody(<<>>)) =>
              /\ frag[1] = <<76, 101, 116>>
              /\ frag[2] = <<SP, 109, 101>>

\* a text that starts with two spaces, streamed: an event without content
\* for the empty token 0, the fragment " " for the empty token 1
C16_Witness ==
  /\ StreamEnded
  /\ text = <<SP, SP, 97>>
  /\ Len(Events) = 4
  /\ ~HasContent(Events[1])
  /\ ContentOf(Events[2]) = <<SP>>
  /\ ContentOf(Events[3]) = <<SP, 97>>

\* ---------------------------------------------------- stream_text that runs
\* stream_text called with a catalog text or any small text, followed from
\* where it has split the text and enters its loop, on a thread that is not
\* held up: when the loop, or the code behind it, can take its next step it
\* takes it (the sleep of the loop is finite, and nothing else is waited for).
InitLive ==
  /\ backlog = 0
  /\ pc = "loop"
  /\ req = NoRequest
  /\ peer = "open"
  /\ log = <<>>
  /\ exc = None
  /\ text \in Texts \cup {Catalog[k] : k \in 1..3}
  /\ words = split(text)
  /\ i = 0
  /\ prev_failed = FALSE

StreamStep ==
  \/ stream_word
  \/ stream_final

NextLive ==
  \/ stream_word
  \/ stream_final
  \/ peer_close

SpecLive == InitLive /\ [][NextLive]_vars /\ WF_vars(StreamStep)

\* C17: a stream whose connection stays open ends. Each turn of the loop
\* moves on by exactly one word of an unchanged word list, so no word is
\* emitted twice; and from the first turn of its loop stream_text reaches the
\* state where it has written one event for each token, the terminal event
\* and the sentinel and has returned, unless the caller closes the connection.
C17_StreamTerminates ==
  /\ [][(pc = "loop" /\ log' # log) =>
          /\ words' = words
          /\ text' = text
          /\ i < Len(words) => (pc' = "loop" => i' = i + 1)
          /\ i = Len(words) => pc' # "loop"]_vars
  /\ (pc = "loop" /\ i = 0)
        ~> \/ /\ pc = "returned"
              /\ Len(log) >= 2
              /\ log[Len(log) - 1] = Write(DONE)
              /\ Len(Events) = Len(words) + 1
           \/ peer = "closed"

\* the summary streamed to its end on an open connection: one event for
\* each of its words, the terminal event, the sentinel
C17_Witness ==
  /\ pc = "returned"
  /\ peer = "open"
  /\ text = FINAL_SUMMARY
  /\ i = Len(words)
  /\ Len(Events) = Len(words) + 1
  /\ log[Len(log) - 1] = Write(DONE)

\* C18: the selection has no error condition for a body that parses as
\* JSON: with the caller still connected, a completion exchange with such a
\* body ends without an exception, having streamed one of the three catalog
\* texts.
C18_ParseableBodySelects ==
  (/\ IsCompletion
   /\ req.body.raw = "json"
   /\ peer = "open"
   /\ pc \in {"returned", "raised"}) =>
    /\ pc = "returned"
    /\ exc = None
    /\ Len(Written) >= 1
    /\ Written[1] = Head200(StreamHeaders)
    /\ \E k \in 1..3 : Streamed = Catalog[k]

\* C19: in a completion exchange nothing is done on the response channel
\* before the body is read and parsed, the messages counted and the text
\* selected. While the handler is not past the selection the log is empty;
\* when the log is not empty the body was read without error and the text is
\* the selected one; and an exchange whose body cannot be read, parsed or
\* counted ends with its exception and an empty log, stream_text never
\* having started.
C19_NothingWrittenBeforeSelection ==
  IsCompletion =>
    /\ pc \in {"dispatch", "handle_completions"} => log = <<>>
    /\ log # <<>> =>
          /\ body_error(req.body) = None
          /\ text = response_text(tool_msg_count(body_messages(req.body)))
    /\ body_error(req.body) # None =>
          /\ log = <<>>
          /\ words = <<>>
          /\ pc \in {"dispatch", "handle_completions", "raised"}
          /\ pc = "raised" => exc = body_error(req.body)

\* a completion exchange that ended on a list entry that is not an object,
\* with nothing written
C19_Witness ==
  /\ IsCompletion
  /\ pc = "raised"
  /\ exc = "AttributeError"
  /\ Len(SentMessages) = 2
  /\ log = <<>>

====
